---- MODULE Spec2Model ----
(***************************************************************************)
(* Model of EmulatedRequestProcessor                                       *)
(* (devices/EmulatedCamera/hwl/EmulatedRequestProcessor.cpp): the bounded  *)
(* pending-request queue, the buffer resolver, the fence synchronizer, the *)
(* worker loop, Flush and the destructor.                                  *)
(*                                                                         *)
(* Collaborators that live outside the file (EmulatedSensor,               *)
(* EmulatedRequestState, HandleImporter, sync_wait) are modelled by the    *)
(* answers they give: every answer they can give is a nondeterministic     *)
(* choice of the action that calls them.                                   *)
(***************************************************************************)
EXTENDS Integers, Sequences, FiniteSets, TLC

(***************************************************************************)
(* Bounds of the model.                                                    *)
(***************************************************************************)
\* number of ProcessPipelineRequests calls made over a run
NumCalls == 2
\* largest number of requests in one ProcessPipelineRequests call
MaxReqs == 2
\* largest number of requests pushed over a run
MaxPush == 3
\* number of Flush calls made over a run
MaxFlush == 1
\* largest number of buffers in a buffer list handed to the resolver
MaxBufs == 2
\* stream widths and heights 0..MaxDim are examined next to the large ones
MaxDim == 4

(***************************************************************************)
(* Program constants.                                                      *)
(***************************************************************************)
\* EmulatedSensor::kPipelineDepth, the depth bound of pending_requests_
kPipelineDepth == 1

HAL_PIXEL_FORMAT_RGBA_8888 == 1
HAL_PIXEL_FORMAT_RGB_888 == 3
HAL_PIXEL_FORMAT_RAW16 == 32
HAL_PIXEL_FORMAT_BLOB == 33
HAL_PIXEL_FORMAT_IMPLEMENTATION_DEFINED == 34
HAL_PIXEL_FORMAT_YCBCR_420_888 == 35
HAL_PIXEL_FORMAT_Y16 == 540422489
HAL_DATASPACE_UNKNOWN == 0
HAL_DATASPACE_DEPTH == 4096
HAL_DATASPACE_V0_JFIF == 146931712

\* uint32_t values are kept as <<high, low>> pairs of 16-bit halves, so that
\* the arithmetic wraps at 2^32 as it does in the code
Half == 65536
Byte == 256

\* a null native_handle_t* (no acquire fence) and a null settings pointer
NullHandle == 0

\* A unique_ptr<SensorBuffer>: null, or pointing to a SensorBuffer; and the
\* outcome of a call that faulted instead of returning one.
NullBuffer == [kind |-> "null"]
FaultBuffer == [kind |-> "fault"]
\* A unique_ptr<Buffers>: null, or pointing to the vector v; and the outcome
\* of a call that faulted instead of returning one.
NullBuffers == [kind |-> "null", v |-> <<>>]
FaultBuffers == [kind |-> "fault", v |-> <<>>]
BuffersOf(v) == [kind |-> "list", v |-> v]

(***************************************************************************)
(* Buffer resolver: GetBufferSizeAndStride, LockSensorBuffer,              *)
(* CreateSensorBuffer, CreateSensorBuffers.                                *)
(***************************************************************************)
\* the uint32_t with value n, for 0 <= n < 2^31
U32(n) == <<n \div Half, n % Half>>

\* the 32-bit product of two 16-bit halves, as a <<high, low>> pair
Mul16(x, y) ==
  LET x1 == x \div Byte
      x0 == x % Byte
      y1 == y \div Byte
      y0 == y % Byte
      m == x1 * y0 + x0 * y1
      t == (m % Byte) * Byte + x0 * y0
  IN  <<(x1 * y1 + m \div Byte + t \div Half) % Half, t % Half>>

\* uint32_t multiplication: a * b modulo 2^32
Mul32(a, b) ==
  LET low == Mul16(a[2], b[2])
  IN  <<(low[1] + Mul16(a[1], b[2])[2] + Mul16(a[2], b[1])[2]) % Half, low[2]>>

\* uint32_t addition: a + b modulo 2^32
Add32(a, b) ==
  LET low == a[2] + b[2]
  IN  <<(a[1] + b[1] + low \div Half) % Half, low % Half>>

\* uint32_t remainder a % m for a small modulus m
Mod32(a, m) == (((a[1] % m) * (Half % m)) + (a[2] % m)) % m

\* AlignTo of EmulatedRequestProcessor.h: round value up to a multiple of
\* alignment
AlignTo(value, alignment) ==
  LET delta == Mod32(value, alignment)
  IN  IF delta = 0 THEN value ELSE Add32(value, U32(alignment - delta))

\* EmulatedSensor::OverrideFormat, applied to input streams only
OverrideFormat(format) ==
  IF format = HAL_PIXEL_FORMAT_IMPLEMENTATION_DEFINED
    THEN HAL_PIXEL_FORMAT_YCBCR_420_888
    ELSE format

\* GetBufferSizeAndStride with the size of the RGB, RGBA and RAW16 formats
\* computed from the height, and nothing else supported
GetBufferSizeAndStrideByHeight(stream) ==
  LET fmt == stream.override_format
      bpp == CASE fmt = HAL_PIXEL_FORMAT_RGB_888 -> 3
               [] fmt = HAL_PIXEL_FORMAT_RGBA_8888 -> 4
               [] fmt = HAL_PIXEL_FORMAT_RAW16 -> 2
               [] OTHER -> 0
      stride == Mul32(U32(stream.width), U32(bpp))
  IN  IF bpp # 0
        THEN [ret |-> "OK", stride |-> stride,
              size |-> Mul32(stride, U32(stream.height))]
        ELSE [ret |-> "BAD_VALUE", stride |-> U32(0), size |-> U32(0)]

\* GetBufferSizeAndStride called with non-null out parameters, as
\* LockSensorBuffer calls it.  The out parameters keep the caller's initial 0
\* when the call returns BAD_VALUE.
GetBufferSizeAndStride(stream) ==
  LET fmt == stream.override_format
      w == U32(stream.width)
      h == U32(stream.height)
      bad == [ret |-> "BAD_VALUE", stride |-> U32(0), size |-> U32(0)]
  IN  CASE fmt = HAL_PIXEL_FORMAT_RGB_888 ->
             LET stride == Mul32(w, U32(3))
             IN  [ret |-> "OK", stride |-> stride, size |-> Mul32(stride, w)]
        [] fmt = HAL_PIXEL_FORMAT_RGBA_8888 ->
             LET stride == Mul32(w, U32(4))
             IN  [ret |-> "OK", stride |-> stride, size |-> Mul32(stride, w)]
        [] fmt = HAL_PIXEL_FORMAT_Y16 ->
             IF stream.override_data_space = HAL_DATASPACE_DEPTH
               THEN LET stride == AlignTo(Mul32(AlignTo(w, 2), U32(2)), 16)
                    IN  [ret |-> "OK", stride |-> stride,
                         size |-> Mul32(stride, AlignTo(h, 2))]
               ELSE bad
        [] fmt = HAL_PIXEL_FORMAT_BLOB ->
             IF stream.override_data_space = HAL_DATASPACE_V0_JFIF
               THEN [ret |-> "OK", stride |-> U32(stream.buffer_size),
                     size |-> U32(stream.buffer_size)]
               ELSE bad
        [] fmt = HAL_PIXEL_FORMAT_RAW16 ->
             LET stride == Mul32(w, U32(2))
             IN  [ret |-> "OK", stride |-> stride, size |-> Mul32(stride, w)]
        [] OTHER -> bad

\* A StreamBuffer as the caller hands it in.  stream_id names the stream,
\* buffer is the buffer handle, acquire_fence is Null or a fence handle.
\* lock_ok and fence_ok are the HandleImporter's answers for these handles:
\* lock_ok is FALSE when lock / lockYCbCr returns null pointers, fence_ok is
\* FALSE when importFence returns false.
StreamBufferOf(sid, h, lok, fence, fok) ==
  [stream_id |-> sid, buffer |-> h, lock_ok |-> lok,
   acquire_fence |-> fence, fence_ok |-> fok]

\* LockSensorBuffer: the status returned and whether the plane pointers of
\* the SensorBuffer were set.  A flat lock that returns a null pointer
\* returns ret, which is OK at that point (line 231).
LockSensorBuffer(stream, stream_buffer) ==
  IF stream.override_format = HAL_PIXEL_FORMAT_YCBCR_420_888
    THEN IF stream_buffer.lock_ok
           THEN [ret |-> "OK", locked |-> TRUE,
                 stride |-> U32(0), size |-> U32(0)]
           ELSE [ret |-> "BAD_VALUE", locked |-> FALSE,
                 stride |-> U32(0), size |-> U32(0)]
    ELSE LET gs == GetBufferSizeAndStride(stream)
         IN  IF gs.ret = "OK"
               THEN IF stream_buffer.lock_ok
                      THEN [ret |-> "OK", locked |-> TRUE,
                            stride |-> gs.stride, size |-> gs.size]
                      ELSE [ret |-> gs.ret, locked |-> FALSE,
                            stride |-> U32(0), size |-> U32(0)]
               ELSE [ret |-> "BAD_VALUE", locked |-> FALSE,
                     stride |-> U32(0), size |-> U32(0)]

\* The SensorBuffer CreateSensorBuffer fills in before it locks (lines
\* 247-266); acquire_fence_fd starts at -1.
NewSensorBuffer(frame_number, stream, pipeline_id, stream_buffer, lk) ==
  [kind |-> "buf",
   frame_number |-> frame_number, pipeline_id |-> pipeline_id,
   stream_id |-> stream_buffer.stream_id, buffer |-> stream_buffer.buffer,
   format |-> stream.override_format, locked |-> lk.locked,
   stride |-> lk.stride, buffer_size |-> lk.size,
   acquire_fence_fd |-> -1, status |-> "kError"]

\* CreateSensorBuffer: the set of results the call can have.  After a failed
\* lock the buffer pointer is null; with an acquire fence present line 276
\* then dereferences it (buffer->importer, buffer->acquire_fence_fd), which
\* is undefined: the call faults when importFence writes the descriptor, or
\* importFence rejects the handle without writing and null is returned.
CreateSensorBuffer(frame_number, emulated_stream, pipeline_id, stream_buffer) ==
  LET stream == IF emulated_stream.is_input
                  THEN [emulated_stream EXCEPT
                          !.override_format = OverrideFormat(@)]
                  ELSE emulated_stream
      lk == LockSensorBuffer(stream, stream_buffer)
      buffer == IF lk.ret # "OK"
                  THEN NullBuffer
                  ELSE NewSensorBuffer(frame_number, stream, pipeline_id,
                                       stream_buffer, lk)
  IN  IF stream_buffer.acquire_fence # NullHandle
        THEN IF buffer = NullBuffer
               THEN {FaultBuffer, NullBuffer}
               ELSE IF stream_buffer.fence_ok
                      THEN {[buffer EXCEPT
                               !.acquire_fence_fd = stream_buffer.acquire_fence]}
                      ELSE {NullBuffer}
        ELSE {buffer}

\* CreateSensorBuffers: the set of results the call can have: null for an
\* empty input, a fault when a CreateSensorBuffer call faults, otherwise the
\* vector of the non-null sensor buffers in input order.
RECURSIVE CreateSensorBuffersFrom(_, _, _, _, _, _)
CreateSensorBuffersFrom(i, acc, frame_number, buffers, streams, pipeline_id) ==
  IF i > Len(buffers)
    THEN {BuffersOf(acc)}
    ELSE UNION {
           IF sensor_buffer = FaultBuffer
             THEN {FaultBuffers}
             ELSE CreateSensorBuffersFrom(
                    i + 1,
                    IF sensor_buffer # NullBuffer
                      THEN Append(acc, sensor_buffer) ELSE acc,
                    frame_number, buffers, streams, pipeline_id)
           : sensor_buffer \in
               CreateSensorBuffer(frame_number, streams[buffers[i].stream_id],
                                  pipeline_id, buffers[i]) }

CreateSensorBuffers(frame_number, buffers, streams, pipeline_id) ==
  IF buffers = <<>>
    THEN {NullBuffers}
    ELSE CreateSensorBuffersFrom(1, <<>>, frame_number, buffers, streams,
                                 pipeline_id)

(***************************************************************************)
(* Fence synchronizer.                                                     *)
(***************************************************************************)
\* AcquireFrom that forwards a record whatever sync_wait returned
RECURSIVE AcquireFromForward(_, _, _, _)
AcquireFromForward(i, acc, buffers, sync) ==
  IF i > Len(buffers)
    THEN acc
    ELSE AcquireFromForward(i + 1, Append(acc, buffers[i]), buffers, sync)

\* AcquireBuffers: sync[i] is the status sync_wait returns for the i-th
\* record when that record has a valid fence descriptor.  A record is moved
\* to the result only when ret == OK; every record is erased from the input.
RECURSIVE AcquireFrom(_, _, _, _)
AcquireFrom(i, acc, buffers, sync) ==
  IF i > Len(buffers)
    THEN acc
    ELSE LET ret == IF buffers[i].acquire_fence_fd >= 0 THEN sync[i] ELSE "OK"
         IN  AcquireFrom(i + 1,
                         IF ret = "OK" THEN Append(acc, buffers[i]) ELSE acc,
                         buffers, sync)

AcquireBuffers(buffers, sync) ==
  IF buffers.kind = "null" \/ buffers.v = <<>>
    THEN NullBuffers
    ELSE BuffersOf(AcquireFrom(1, <<>>, buffers.v, sync))

(***************************************************************************)
(* The environment of the processor: the pipeline table every call passes, *)
(* and the requests callers submit.                                        *)
(***************************************************************************)
\* pipelines[pid].streams, the same stream table for every pipeline:
\* a YCbCr output stream, a RAW16 output stream, an implementation-defined
\* input stream and an implementation-defined (unsupported) output stream
Streams ==
  [sid \in 0..3 |->
     CASE sid = 0 -> [width |-> 4, height |-> 2, is_input |-> FALSE,
                      override_format |-> HAL_PIXEL_FORMAT_YCBCR_420_888,
                      override_data_space |-> HAL_DATASPACE_UNKNOWN,
                      buffer_size |-> 0]
       [] sid = 1 -> [width |-> 4, height |-> 2, is_input |-> FALSE,
                      override_format |-> HAL_PIXEL_FORMAT_RAW16,
                      override_data_space |-> HAL_DATASPACE_UNKNOWN,
                      buffer_size |-> 0]
       [] sid = 2 -> [width |-> 4, height |-> 2, is_input |-> TRUE,
                      override_format |-> HAL_PIXEL_FORMAT_IMPLEMENTATION_DEFINED,
                      override_data_space |-> HAL_DATASPACE_UNKNOWN,
                      buffer_size |-> 0]
       [] sid = 3 -> [width |-> 4, height |-> 2, is_input |-> FALSE,
                      override_format |-> HAL_PIXEL_FORMAT_IMPLEMENTATION_DEFINED,
                      override_data_space |-> HAL_DATASPACE_UNKNOWN,
                      buffer_size |-> 0]]

\* pipelines.size(): the pipeline ids 0 .. NumPipelines-1 are valid
NumPipelines == 2

\* the frame number the c-th ProcessPipelineRequests call passes
FrameOf(c) == 100 + c

\* a HwlPipelineRequest; settings is NullHandle for an absent settings blob
RequestOf(pipeline_id, settings, output_buffers, input_buffers) ==
  [pipeline_id |-> pipeline_id, settings |-> settings,
   output_buffers |-> output_buffers, input_buffers |-> input_buffers]

\* StreamBuffers: on the YCbCr stream without a fence, with a fence, with a
\* failing lock; on the RAW16 stream; on the input stream
PlainBuffer == StreamBufferOf(0, 1, TRUE, NullHandle, TRUE)
FencedBuffer == StreamBufferOf(0, 1, TRUE, 7, TRUE)
UnlockableBuffer == StreamBufferOf(0, 1, FALSE, NullHandle, TRUE)
UnlockableFencedBuffer == StreamBufferOf(0, 1, FALSE, 7, TRUE)
RawBuffer == StreamBufferOf(1, 2, TRUE, NullHandle, TRUE)
InputBuffer == StreamBufferOf(2, 3, TRUE, NullHandle, TRUE)

\* The requests callers submit when the queue and the buffers are examined:
\* a plain request, one whose only output buffer has an acquire fence, one
\* with a fenced and an unfenced output buffer and an input buffer, one
\* without output buffers, one whose only output buffer fails to lock, one
\* whose output buffer fails to lock and has a fence, and one naming a
\* pipeline that does not exist.
RequestChoices ==
  { RequestOf(0, 1, <<PlainBuffer>>, <<>>),
    RequestOf(1, NullHandle, <<FencedBuffer>>, <<>>),
    RequestOf(0, 2, <<FencedBuffer, RawBuffer>>, <<InputBuffer>>),
    RequestOf(1, 1, <<>>, <<>>),
    RequestOf(0, 1, <<UnlockableBuffer>>, <<>>),
    RequestOf(1, 1, <<UnlockableFencedBuffer>>, <<>>),
    RequestOf(NumPipelines, 1, <<PlainBuffer>>, <<>>) }

\* The requests callers submit when the settings are examined: every
\* pipeline with every settings blob, present or absent.
SettingsChoices ==
  { RequestOf(pid, settings, <<PlainBuffer>>, <<>>) :
      pid \in 0..(NumPipelines - 1), settings \in {NullHandle, 1, 2} }

\* the statuses sync_wait can return
SyncResults == {"OK", "ETIME"}

\* EmulatedRequestState::InitializeSensorSettings: the statuses it can return
\* for a settings blob; a null blob is rejected
InitializeSensorSettings(blob) ==
  IF blob = NullHandle THEN {"BAD_VALUE"} ELSE {"OK", "BAD_VALUE"}

\* the statuses EmulatedSensor::Flush can return
SensorFlushResults == {"OK", "INVALID_OPERATION"}

(***************************************************************************)
(* State.                                                                  *)
(***************************************************************************)
VARIABLES
  pending_requests_,  \* std::queue<PendingRequest>, front first
  last_settings_,     \* the remembered settings blob, NullHandle at first
  processor_done_,    \* the shutdown flag
  process_mutex_,     \* the owner of process_mutex_, Free when unlocked
  call,               \* the ProcessPipelineRequests calls, by call number
  flush,              \* the Flush caller
  worker,             \* the request thread running RequestProcessorLoop
  dtor,               \* position of ~EmulatedRequestProcessor
  fault,              \* "none", or how the process died
  submitted,          \* history: pushes counted, last settings per pipeline
  sensor_log,         \* history: the calls made to sensor_
  notify_log,         \* history: the messages given to callback.notify
  bin, bout, bpc,     \* input, result and position of the resolver harness
  gstream, gout       \* the stream given to GetBufferSizeAndStride, its result

vars == <<pending_requests_, last_settings_, processor_done_, process_mutex_,
          call, flush, worker, dtor, fault, submitted, sensor_log, notify_log,
          bin, bout, bpc, gstream, gout>>

gvars == <<gstream, gout>>

bvars == <<bin, bout, bpc, gstream, gout>>

Calls == 1..NumCalls

Free == <<"free", 0>>
WorkerThread == <<"worker", 0>>
FlushThread == <<"flush", 0>>
CallThread(c) == <<"call", c>>

\* a call made to sensor_: SetCurrentRequest for the request pushed id-th
\* with the resolved settings blob and the output buffers handed over, or
\* Flush / ShutDown
SensorCall(op, id, blob, bufs) ==
  [op |-> op, id |-> id, blob |-> blob, bufs |-> bufs]

\* a NotifyMessage given to callback.notify(pipeline_id, msg); id is the
\* push number of the request it is about and by the thread that sent it
Notification(id, pipeline_id, frame_number, error_code, by) ==
  [id |-> id, pipeline_id |-> pipeline_id, frame_number |-> frame_number,
   error_stream_id |-> -1, error_code |-> error_code, by |-> by]

\* the buffer handles of a vector of sensor buffers
RECURSIVE Handles(_)
Handles(v) == IF v = <<>> THEN <<>> ELSE <<v[1].buffer>> \o Handles(Tail(v))

QInit ==
  /\ pending_requests_ = <<>>
  /\ last_settings_ = NullHandle
  /\ processor_done_ = FALSE
  /\ process_mutex_ = Free
  /\ call = [c \in Calls |-> [pc |-> "idle", n |-> 0, pipeline_id |-> 0,
                              ret |-> "none"]]
  /\ flush = [pc |-> "idle", ret |-> "none", count |-> 0, queued |-> <<>>,
              sent |-> 0]
  /\ worker = [pc |-> "top", front |-> 0, ret |-> "none", blob |-> 0,
               acquired |-> <<>>, out |-> "none"]
  /\ dtor = "idle"
  /\ fault = "none"
  /\ submitted = [n |-> 0,
                  settings |-> [pid \in 0..NumPipelines |-> NullHandle]]
  /\ sensor_log = <<>>
  /\ notify_log = <<>>

BIdle ==
  /\ bin = <<>>
  /\ bout = [created |-> NullBuffers, sync |-> <<>>, acquired |-> NullBuffers]
  /\ bpc = "off"

\* no stream is under examination
NoStream ==
  [width |-> 0, height |-> 0, is_input |-> FALSE, override_format |-> 0,
   override_data_space |-> HAL_DATASPACE_UNKNOWN, buffer_size |-> 0]

\* the out parameters and the status before GetBufferSizeAndStride is called
NoGeometry == [ret |-> "none", stride |-> <<0, 0>>, size |-> <<0, 0>>]

GIdle ==
  /\ gstream = NoStream
  /\ gout = NoGeometry

Init == QInit /\ BIdle /\ GIdle

(***************************************************************************)
(* ProcessPipelineRequests, lines 57-97.  choices is the set of requests   *)
(* the callers submit.                                                     *)
(***************************************************************************)
Alive == fault = "none"

\* AtLoop for a call that enters without waiting for the mutex
AtLoopUnlocked(c) ==
  \/ call[c].pc = "loop"
  \/ call[c].pc = "idle" /\ dtor = "idle"

\* The call is at the top of the for loop of line 64 with the mutex held, or
\* enters the function and can take the mutex at line 62.  No call starts
\* once the destructor runs.
AtLoop(c) ==
  \/ call[c].pc = "loop"
  \/ call[c].pc = "idle" /\ process_mutex_ = Free /\ dtor = "idle"

\* the requests that were pushed or that a call is about to push
Taken ==
  submitted.n
  + Cardinality({c \in Calls :
                   call[c].pc \in {"check", "wait", "woken", "timedout"}})

\* the requests vector of the call has a further element
HasNext(c) == call[c].n < MaxReqs /\ Taken < MaxPush

\* InvalidPipeline with the comparison off by one
InvalidPipelineOffByOne(pipeline_id) == pipeline_id > NumPipelines

\* line 65: request.pipeline_id >= pipelines.size()
InvalidPipeline(pipeline_id) == pipeline_id >= NumPipelines

\* QueueFull with the depth bound off by one
QueueFullOffByOne(queue) == Len(queue) > kPipelineDepth + 1

\* line 71: pending_requests_.size() > EmulatedSensor::kPipelineDepth
QueueFull(queue) == Len(queue) > kPipelineDepth

\* line 64 at the end of requests, line 96: return OK and unlock
CallReturnOk(c) ==
  /\ Alive
  /\ AtLoop(c)
  /\ call' = [call EXCEPT ![c].pc = "done", ![c].ret = "OK"]
  /\ process_mutex_' = Free
  /\ UNCHANGED <<pending_requests_, last_settings_, processor_done_, flush,
                 worker, dtor, fault, submitted, sensor_log, notify_log>>

\* lines 64-69: the next request of the call has a pipeline_id that is not
\* below pipelines.size(): return BAD_VALUE and unlock
CallBadValue(c, choices) ==
  /\ Alive
  /\ AtLoop(c)
  /\ HasNext(c)
  /\ \E request \in choices :
       /\ InvalidPipeline(request.pipeline_id)
       /\ call' = [call EXCEPT ![c].pc = "done", ![c].ret = "BAD_VALUE",
                                ![c].pipeline_id = request.pipeline_id]
  /\ process_mutex_' = Free
  /\ UNCHANGED <<pending_requests_, last_settings_, processor_done_, flush,
                 worker, dtor, fault, submitted, sensor_log, notify_log>>

\* The pipeline ids with which the call can be at line 71: that of the next
\* request when it passed the check of line 65, or that of the request the
\* call was waiting for.
AtWhile(c, choices) ==
  IF AtLoop(c) /\ HasNext(c)
    THEN {request.pipeline_id : request \in
            {r \in choices : ~ InvalidPipeline(r.pipeline_id)}}
    ELSE IF call[c].pc = "check" THEN {call[c].pipeline_id} ELSE {}

\* lines 71-74: the queue is above the depth bound: wait_for releases the
\* mutex and blocks
CallWait(c, choices) ==
  /\ Alive
  /\ QueueFull(pending_requests_)
  /\ \E pid \in AtWhile(c, choices) :
       call' = [call EXCEPT ![c].pc = "wait", ![c].pipeline_id = pid]
  /\ process_mutex_' = Free
  /\ UNCHANGED <<pending_requests_, last_settings_, processor_done_, flush,
                 worker, dtor, fault, submitted, sensor_log, notify_log>>

\* a wait_for that is not notified may still wake up (spurious wakeup)
CallSpuriousWake(c) ==
  /\ Alive
  /\ call[c].pc = "wait"
  /\ call' = [call EXCEPT ![c].pc = "woken"]
  /\ UNCHANGED <<pending_requests_, last_settings_, processor_done_,
                 process_mutex_, flush, worker, dtor, fault, submitted,
                 sensor_log, notify_log>>

\* the timeout of wait_for elapses
CallWaitElapsed(c) ==
  /\ Alive
  /\ call[c].pc = "wait"
  /\ call' = [call EXCEPT ![c].pc = "timedout"]
  /\ UNCHANGED <<pending_requests_, last_settings_, processor_done_,
                 process_mutex_, flush, worker, dtor, fault, submitted,
                 sensor_log, notify_log>>

\* wait_for returns no_timeout with the mutex held again: back to line 71
CallWakeUp(c) ==
  /\ Alive
  /\ call[c].pc = "woken"
  /\ process_mutex_ = Free
  /\ process_mutex_' = CallThread(c)
  /\ call' = [call EXCEPT ![c].pc = "check"]
  /\ UNCHANGED <<pending_requests_, last_settings_, processor_done_, flush,
                 worker, dtor, fault, submitted, sensor_log, notify_log>>

\* CallTimedOut that leaves the while loop instead of the function
CallTimedOutBreak(c) ==
  /\ Alive
  /\ call[c].pc = "timedout"
  /\ process_mutex_ = Free
  /\ process_mutex_' = CallThread(c)
  /\ call' = [call EXCEPT ![c].pc = "loop", ![c].ret = "TIMED_OUT"]
  /\ UNCHANGED <<pending_requests_, last_settings_, processor_done_, flush,
                 worker, dtor, fault, submitted, sensor_log, notify_log>>

\* lines 75-78: wait_for returns timeout with the mutex held again; the call
\* returns TIMED_OUT and unlocks
CallTimedOut(c) ==
  /\ Alive
  /\ call[c].pc = "timedout"
  /\ process_mutex_ = Free
  /\ call' = [call EXCEPT ![c].pc = "done", ![c].ret = "TIMED_OUT"]
  /\ UNCHANGED <<pending_requests_, last_settings_, processor_done_,
                 process_mutex_, flush, worker, dtor, fault, submitted,
                 sensor_log, notify_log>>

\* The element pushed at lines 90-93.  History fields: id numbers the pushes,
\* frame_number and pipeline_id are those of the submission, outputs are the
\* handles of the output buffers resolved at submission, prior is the
\* settings blob of the latest request of the same pipeline pushed before
\* that carried settings.
PendingRequest(id, request, frame_number, input_buffers, output_buffers) ==
  [id |-> id, settings |-> request.settings,
   input_buffers |-> input_buffers, output_buffers |-> output_buffers,
   frame_number |-> frame_number, pipeline_id |-> request.pipeline_id,
   outputs |-> Handles(output_buffers.v),
   prior |-> submitted.settings[request.pipeline_id]]

\* Push at the front instead of the back
PushFront(queue, element) == <<element>> \o queue

\* where pending_requests_.push puts the new element
Push(queue, element) == Append(queue, element)

\* lines 81-93: the queue is within the depth bound: resolve the buffers of
\* the request and push it
CallPush(c, choices) ==
  /\ Alive
  /\ ~ QueueFull(pending_requests_)
  /\ \E pid \in AtWhile(c, choices) :
     \E request \in {r \in choices : r.pipeline_id = pid} :
       \E output_buffers \in CreateSensorBuffers(
                               FrameOf(c), request.output_buffers, Streams, pid),
          input_buffers \in CreateSensorBuffers(
                              FrameOf(c), request.input_buffers, Streams, pid) :
         IF output_buffers = FaultBuffers \/ input_buffers = FaultBuffers
           THEN /\ fault' = "segv"
                /\ call' = [call EXCEPT ![c].pc = "check",
                                         ![c].pipeline_id = pid]
                /\ UNCHANGED <<pending_requests_, submitted>>
           ELSE /\ pending_requests_' =
                     Push(pending_requests_,
                          PendingRequest(submitted.n + 1, request, FrameOf(c),
                                         input_buffers, output_buffers))
                /\ submitted' =
                     [n |-> submitted.n + 1,
                      settings |->
                        IF request.settings # NullHandle
                          THEN [submitted.settings EXCEPT
                                  ![pid] = request.settings]
                          ELSE submitted.settings]
                /\ call' = [call EXCEPT ![c].pc = "loop", ![c].n = @ + 1,
                                         ![c].pipeline_id = pid]
                /\ UNCHANGED fault
  /\ process_mutex_' = CallThread(c)
  /\ UNCHANGED <<last_settings_, processor_done_, flush, worker, dtor,
                 sensor_log, notify_log>>

(***************************************************************************)
(* NotifyFailedRequest and Flush, lines 120-146.                           *)
(***************************************************************************)
\* request.output_buffers->at(0) (lines 121, 327): "ok" when there is a first
\* element; on an empty vector at() throws std::out_of_range, which nothing
\* catches ("abort"); on a null unique_ptr the dereference is undefined and
\* the process dies one way or the other.
AtZero(output_buffers) ==
  IF output_buffers.kind = "null"
    THEN {"segv", "abort"}
    ELSE IF output_buffers.v = <<>> THEN {"abort"} ELSE {"ok"}

\* the history fields of the queued requests, front first
RECURSIVE Queued(_)
Queued(queue) ==
  IF queue = <<>>
    THEN <<>>
    ELSE <<[id |-> queue[1].id, frame_number |-> queue[1].frame_number,
            pipeline_id |-> queue[1].pipeline_id]>> \o Queued(Tail(queue))

\* a caller enters Flush, lines 134-136: lock the mutex and call
\* sensor_->Flush().  History: queued is the queue and sent the number of
\* notifications at that moment.
FlushLock ==
  /\ Alive /\ dtor = "idle"
  /\ flush.pc = "idle"
  /\ flush.count < MaxFlush
  /\ process_mutex_ = Free
  /\ process_mutex_' = FlushThread
  /\ \E ret \in SensorFlushResults :
       flush' = [flush EXCEPT !.pc = "drain", !.ret = ret,
                              !.queued = Queued(pending_requests_),
                              !.sent = Len(notify_log)]
  /\ sensor_log' = Append(sensor_log, SensorCall("Flush", 0, 0, <<>>))
  /\ UNCHANGED <<pending_requests_, last_settings_, processor_done_, call,
                 worker, dtor, fault, submitted, notify_log>>

\* NotifyFailedRequest that sends its message twice
NotifyFailedRequestTwice(request, notifications) ==
  notifications
  \o << Notification(request.id, request.output_buffers.v[1].pipeline_id,
                     request.output_buffers.v[1].frame_number,
                     "kErrorRequest", "flush"),
        Notification(request.id, request.output_buffers.v[1].pipeline_id,
                     request.output_buffers.v[1].frame_number,
                     "kErrorRequest", "flush") >>

\* NotifyFailedRequest, lines 120-131, for a request with a first output
\* buffer: the notifications after the call.  Every pipeline callback of the
\* model has a notify function.
NotifyFailedRequest(request, notifications) ==
  Append(notifications,
         Notification(request.id, request.output_buffers.v[1].pipeline_id,
                      request.output_buffers.v[1].frame_number,
                      "kErrorRequest", "flush"))

\* lines 139-143, one turn of the loop: NotifyFailedRequest(front), pop
FlushDrain ==
  /\ Alive
  /\ flush.pc = "drain"
  /\ pending_requests_ # <<>>
  /\ LET request == Head(pending_requests_)
     IN  \E at \in AtZero(request.output_buffers) :
           IF at # "ok"
             THEN /\ fault' = at
                  /\ UNCHANGED <<pending_requests_, notify_log>>
             ELSE /\ notify_log' = NotifyFailedRequest(request, notify_log)
                  /\ pending_requests_' = Tail(pending_requests_)
                  /\ UNCHANGED fault
  /\ UNCHANGED <<last_settings_, processor_done_, process_mutex_, call,
                 flush, worker, dtor, submitted, sensor_log>>

\* line 145: the queue is empty: return ret and unlock
FlushReturn ==
  /\ Alive
  /\ flush.pc = "drain"
  /\ pending_requests_ = <<>>
  /\ flush' = [flush EXCEPT !.pc = "idle", !.count = @ + 1]
  /\ process_mutex_' = Free
  /\ UNCHANGED <<pending_requests_, last_settings_, processor_done_, call,
                 worker, dtor, fault, submitted, sensor_log, notify_log>>

(***************************************************************************)
(* RequestProcessorLoop, lines 318-373.                                    *)
(***************************************************************************)
\* line 371 and line 321: WaitForVSync returns (after the first iteration)
\* and the loop condition is evaluated
WorkerTop ==
  /\ Alive
  /\ worker.pc = "top"
  /\ worker' = [worker EXCEPT !.pc = IF processor_done_ THEN "exit" ELSE "lock"]
  /\ UNCHANGED <<pending_requests_, last_settings_, processor_done_,
                 process_mutex_, call, flush, dtor, fault, submitted,
                 sensor_log, notify_log>>

\* lines 323-324 with an empty queue: lock, find nothing, leave the block,
\* which unlocks
WorkerIdle ==
  /\ Alive
  /\ worker.pc = "lock"
  /\ process_mutex_ = Free
  /\ pending_requests_ = <<>>
  /\ worker' = [worker EXCEPT !.pc = "top"]
  /\ UNCHANGED <<pending_requests_, last_settings_, processor_done_,
                 process_mutex_, call, flush, dtor, fault, submitted,
                 sensor_log, notify_log>>

\* SettingsBlob that reuses the last settings submitted to the pipeline of
\* the request
SettingsBlobPerPipeline(request, last_settings) ==
  IF request.settings # NullHandle THEN request.settings ELSE request.prior

\* lines 336-343: the blob given to InitializeSensorSettings: the settings of
\* the request, or last_settings_ when the request has none
SettingsBlob(request, last_settings) ==
  IF request.settings # NullHandle THEN request.settings ELSE last_settings

\* the sync_wait statuses of one AcquireBuffers call
SyncChoices(buffers) == [1..Len(buffers.v) -> SyncResults]

\* line 326: the element of the queue the worker looks at
Front(queue) == Head(queue)

\* lines 323-364: lock, peek the front request, resolve its settings, acquire
\* its output buffers, then dispatch it or notify kErrorResult.
\* AcquireBuffers erases the records of the vectors it is given.  History:
\* the worker record keeps the push number of the request, the status of the
\* settings resolution, the blob resolved, the handles of the acquired output
\* buffers and the branch taken, until the pop.
WorkerProcess ==
  /\ Alive
  /\ worker.pc = "lock"
  /\ process_mutex_ = Free
  /\ pending_requests_ # <<>>
  /\ process_mutex_' = WorkerThread
  /\ LET request == Front(pending_requests_)
     IN  \E at \in AtZero(request.output_buffers) :
           IF at # "ok"
             THEN /\ fault' = at
                  /\ worker' = [worker EXCEPT !.pc = "body",
                                              !.front = request.id]
                  /\ UNCHANGED <<pending_requests_, last_settings_,
                                 sensor_log, notify_log>>
             ELSE
               LET frame_number == request.output_buffers.v[1].frame_number
                   pipeline_id == request.output_buffers.v[1].pipeline_id
                   blob == SettingsBlob(request, last_settings_)
               IN  \E ret \in InitializeSensorSettings(blob),
                      sync \in SyncChoices(request.output_buffers),
                      isync \in SyncChoices(request.input_buffers) :
                     LET output_buffers ==
                           AcquireBuffers(request.output_buffers, sync)
                         dispatch == output_buffers.v # <<>> /\ ret = "OK"
                     IN  /\ last_settings_' =
                              IF request.settings # NullHandle
                                THEN request.settings ELSE last_settings_
                         /\ IF dispatch
                              THEN /\ sensor_log' =
                                        Append(sensor_log,
                                          SensorCall("SetCurrentRequest",
                                            request.id, blob,
                                            Handles(output_buffers.v)))
                                   /\ UNCHANGED notify_log
                              ELSE /\ notify_log' =
                                        Append(notify_log,
                                          Notification(request.id, pipeline_id,
                                            frame_number, "kErrorResult",
                                            "worker"))
                                   /\ UNCHANGED sensor_log
                         /\ pending_requests_' =
                              [pending_requests_ EXCEPT
                                 ![1].output_buffers = BuffersOf(<<>>),
                                 ![1].input_buffers =
                                    IF dispatch /\ @.kind = "list"
                                      THEN BuffersOf(<<>>) ELSE @]
                         /\ worker' = [worker EXCEPT
                                         !.pc = "pop", !.front = request.id,
                                         !.ret = ret, !.blob = blob,
                                         !.acquired =
                                            Handles(output_buffers.v),
                                         !.out = IF dispatch THEN "dispatch"
                                                             ELSE "notify"]
                         /\ UNCHANGED fault
  /\ UNCHANGED <<processor_done_, call, flush, dtor, submitted>>

\* request_condition_.notify_one(): the call records after one of the
\* callers blocked in wait_for, if any, was woken
NotifyOne(cl) ==
  LET waiting == {c \in Calls : cl[c].pc = "wait"}
  IN  IF waiting = {}
        THEN {cl}
        ELSE {[cl EXCEPT ![c].pc = "woken"] : c \in waiting}

\* lines 366-369: pop, notify_one, leave the block, which unlocks
WorkerPop ==
  /\ Alive
  /\ worker.pc = "pop"
  /\ pending_requests_' = Tail(pending_requests_)
  /\ call' \in NotifyOne(call)
  /\ process_mutex_' = Free
  /\ worker' = [worker EXCEPT !.pc = "top", !.front = 0, !.ret = "none",
                              !.blob = 0, !.acquired = <<>>, !.out = "none"]
  /\ UNCHANGED <<last_settings_, processor_done_, flush, dtor, fault,
                 submitted, sensor_log, notify_log>>

(***************************************************************************)
(* ~EmulatedRequestProcessor, lines 45-55.  The owner destroys the         *)
(* processor when no call on it is in progress.                            *)
(***************************************************************************)
\* line 47: processor_done_ = true
DtorBegin ==
  /\ Alive
  /\ dtor = "idle"
  /\ \A c \in Calls : call[c].pc \in {"idle", "done"}
  /\ flush.pc = "idle"
  /\ processor_done_' = TRUE
  /\ dtor' = "join"
  /\ UNCHANGED <<pending_requests_, last_settings_, process_mutex_, call,
                 flush, worker, fault, submitted, sensor_log, notify_log>>

\* lines 48-50: join returns once the request thread has left its loop, then
\* sensor_->ShutDown()
DtorShutDown ==
  /\ Alive
  /\ dtor = "join"
  /\ worker.pc = "exit"
  /\ dtor' = "done"
  /\ sensor_log' = Append(sensor_log, SensorCall("ShutDown", 0, 0, <<>>))
  /\ UNCHANGED <<pending_requests_, last_settings_, processor_done_,
                 process_mutex_, call, flush, worker, fault, submitted,
                 notify_log>>

\* the steps of the processor when callers submit requests out of choices
QNext(choices) ==
  \/ \E c \in Calls : CallReturnOk(c)
  \/ \E c \in Calls : CallBadValue(c, choices)
  \/ \E c \in Calls : CallWait(c, choices)
  \/ \E c \in Calls : CallSpuriousWake(c)
  \/ \E c \in Calls : CallWaitElapsed(c)
  \/ \E c \in Calls : CallWakeUp(c)
  \/ \E c \in Calls : CallTimedOut(c)
  \/ \E c \in Calls : CallPush(c, choices)
  \/ FlushLock
  \/ FlushDrain
  \/ FlushReturn
  \/ WorkerTop
  \/ WorkerIdle
  \/ WorkerProcess
  \/ WorkerPop
  \/ DtorBegin
  \/ DtorShutDown

qvars == <<pending_requests_, last_settings_, processor_done_, process_mutex_,
           call, flush, worker, dtor, fault, submitted, sensor_log, notify_log>>

\* The processor with callers that submit RequestChoices.
Next == QNext(RequestChoices) /\ UNCHANGED bvars

Spec == Init /\ [][Next]_vars

\* The requests callers submit when the progress of the threads is
\* examined: a plain request, one without output buffers, and one naming a
\* pipeline that does not exist.
ProgressChoices ==
  { RequestOf(0, 1, <<PlainBuffer>>, <<>>),
    RequestOf(1, 1, <<>>, <<>>),
    RequestOf(NumPipelines, 1, <<PlainBuffer>>, <<>>) }

ProgressNext == QNext(ProgressChoices) /\ UNCHANGED bvars

\* the steps of the request thread, of a Flush that was entered and of a
\* ProcessPipelineRequests call that was begun
WorkerStep ==
  (WorkerTop \/ WorkerIdle \/ WorkerProcess \/ WorkerPop) /\ UNCHANGED bvars

FlushStep == (FlushDrain \/ FlushReturn) /\ UNCHANGED bvars

CallStep(c) ==
  /\ \/ CallReturnOk(c)
     \/ CallBadValue(c, ProgressChoices)
     \/ CallWait(c, ProgressChoices)
     \/ CallSpuriousWake(c)
     \/ CallWaitElapsed(c)
     \/ CallWakeUp(c)
     \/ CallTimedOut(c)
     \/ CallPush(c, ProgressChoices)
  /\ call[c].pc # "idle"
  /\ UNCHANGED bvars

\* The processor with threads that keep running: a thread that can take a
\* step does not stop for ever.  A call that was begun is carried through, a
\* Flush that was entered drains and returns, the request thread keeps
\* looping (WaitForVSync, sync_wait and the collaborators return), and a
\* destructor that was begun joins and shuts down; whether a further call or
\* Flush or the destructor is begun is up to the owner.  The request thread
\* gets process_mutex_ when the mutex is free again and again: callers that
\* wake up spuriously do not keep it out for ever.
FairSpec ==
  /\ Init /\ [][ProgressNext]_vars
  /\ SF_vars(WorkerStep)
  /\ WF_vars(FlushStep)
  /\ WF_vars(DtorShutDown /\ UNCHANGED bvars)
  /\ \A c \in Calls : WF_vars(CallStep(c))

\* The processor with callers that submit SettingsChoices.
SettingsNext == QNext(SettingsChoices) /\ UNCHANGED bvars

SettingsSpec == Init /\ [][SettingsNext]_vars

(***************************************************************************)
(* The buffer resolver and the fence synchronizer on their own: one        *)
(* CreateSensorBuffers call on a list of StreamBuffers, then one           *)
(* AcquireBuffers call on its result.                                      *)
(***************************************************************************)
\* the i-th StreamBuffer of a list has buffer handle i; fence_ok only matters
\* when there is an acquire fence
BufferChoices(i) ==
  { StreamBufferOf(sid, i, lok, fence, fok) :
      sid \in DOMAIN Streams, lok \in BOOLEAN,
      fence \in {NullHandle, 7}, fok \in BOOLEAN }
  \ { StreamBufferOf(sid, i, lok, NullHandle, FALSE) :
        sid \in DOMAIN Streams, lok \in BOOLEAN }

BufferLists ==
  UNION { {b \in [1..n -> UNION {BufferChoices(i) : i \in 1..n}] :
             \A i \in 1..n : b[i] \in BufferChoices(i)} : n \in 0..MaxBufs }

BInit ==
  /\ QInit
  /\ GIdle
  /\ bin \in BufferLists
  /\ bout = [created |-> NullBuffers, sync |-> <<>>, acquired |-> NullBuffers]
  /\ bpc = "in"

\* CreateSensorBuffers(frame_number, bin, streams, pipeline_id, cb)
BCreate ==
  /\ bpc = "in"
  /\ \E created \in CreateSensorBuffers(FrameOf(1), bin, Streams, 0) :
       /\ bout' = [bout EXCEPT !.created = created]
       /\ bpc' = IF created = FaultBuffers THEN "fault" ELSE "created"
  /\ UNCHANGED bin

\* AcquireBuffers(created)
BAcquire ==
  /\ bpc = "created"
  /\ \E sync \in SyncChoices(bout.created) :
       bout' = [bout EXCEPT !.sync = sync,
                            !.acquired = AcquireBuffers(bout.created, sync)]
  /\ bpc' = "acquired"
  /\ UNCHANGED bin

BufNext == (BCreate \/ BAcquire) /\ UNCHANGED qvars /\ UNCHANGED gvars

BufSpec == BInit /\ [][BufNext]_vars

(***************************************************************************)
(* GetBufferSizeAndStride on its own: one call on a stream.                *)
(***************************************************************************)
\* stream widths and heights: the small ones, those of the usual streams,
\* and widths whose stride or size does not fit 32 bits
Widths == (0..MaxDim) \cup {100, 640, 46341, 65535, 65536, 1431655766}

Heights == (0..MaxDim) \cup {50, 480, 65535}

\* declared buffer sizes of a stream
BufferSizes == {0, 65536, 2147483647}

\* the pixel formats and the data spaces a stream can have
Formats ==
  { HAL_PIXEL_FORMAT_RGBA_8888, HAL_PIXEL_FORMAT_RGB_888,
    HAL_PIXEL_FORMAT_RAW16, HAL_PIXEL_FORMAT_BLOB,
    HAL_PIXEL_FORMAT_IMPLEMENTATION_DEFINED, HAL_PIXEL_FORMAT_YCBCR_420_888,
    HAL_PIXEL_FORMAT_Y16 }

DataSpaces ==
  {HAL_DATASPACE_UNKNOWN, HAL_DATASPACE_DEPTH, HAL_DATASPACE_V0_JFIF}

GeomStreams ==
  [width : Widths, height : Heights, is_input : {FALSE},
   override_format : Formats, override_data_space : DataSpaces,
   buffer_size : BufferSizes]

GInit ==
  /\ QInit
  /\ BIdle
  /\ gstream \in GeomStreams
  /\ gout = NoGeometry

\* GetBufferSizeAndStride(gstream, &size, &stride) with size and stride 0
\* before the call
GCall ==
  /\ gout.ret = "none"
  /\ gout' = GetBufferSizeAndStride(gstream)
  /\ UNCHANGED gstream

GeomNext == GCall /\ UNCHANGED qvars /\ UNCHANGED <<bin, bout, bpc>>

GeomSpec == GInit /\ [][GeomNext]_vars

(***************************************************************************)
(* Properties of the submission queue.                                     *)
(***************************************************************************)
\* the requests of call c that are in the queue
QueuedOf(c, queue) ==
  {i \in 1..Len(queue) : queue[i].frame_number = FrameOf(c)}

\* C1: pending_requests_ never holds more than kPipelineDepth + 1 entries,
\* and an entry is only added while it holds at most kPipelineDepth.
C1_QueueBound ==
  /\ [](Len(pending_requests_) <= kPipelineDepth + 1)
  /\ [][Len(pending_requests_') > Len(pending_requests_)
          => Len(pending_requests_) <= kPipelineDepth]_vars

\* the queue is at kPipelineDepth + 1 and a submitter is blocked on it
C1_Witness ==
  /\ Len(pending_requests_) = kPipelineDepth + 1
  /\ \E c \in Calls : call[c].pc = "wait"

\* the ids of the requests handed to SetCurrentRequest, in call order
Dispatched ==
  SelectSeq(sensor_log, LAMBDA e : e.op = "SetCurrentRequest")

\* C2: requests reach SetCurrentRequest in the order they were pushed: the
\* push numbers of the dispatched requests increase.
C2_FifoDispatch ==
  \A i, j \in 1..Len(Dispatched) :
    i < j => Dispatched[i].id < Dispatched[j].id

\* two requests pushed one after the other were dispatched, and a Flush ran
C2_Witness ==
  /\ Len(Dispatched) >= 2
  /\ Dispatched[2].id = Dispatched[1].id + 1
  /\ flush.count > 0

\* C3: a call that meets a full queue blocks; it pushes only after the queue
\* is seen within the depth bound; it returns TIMED_OUT only out of a wait
\* that timed out, and that return pushes nothing, removes nothing from the
\* queue, and ends the call, so no later request of the call is pushed.
C3_TimedOut ==
  [][\A c \in Calls :
       /\ (call'[c].ret = "TIMED_OUT" /\ call[c].ret # "TIMED_OUT")
            => /\ call[c].pc = "timedout"
               /\ call'[c].pc = "done"
               /\ call'[c].n = call[c].n
               /\ pending_requests_' = pending_requests_
               /\ submitted' = submitted
       /\ call[c].ret = "TIMED_OUT" => call'[c] = call[c]
       /\ call[c].pc \in {"wait", "woken", "timedout"}
            => call'[c].n = call[c].n
       /\ call'[c].n > call[c].n => Len(pending_requests_) <= kPipelineDepth
       /\ (call[c].pc \in {"idle", "loop", "check"}
           /\ call[c].ret = "none"
           /\ Len(pending_requests_) > kPipelineDepth
           /\ call'[c] # call[c])
            => call'[c].pc \in {"wait", "done"} /\ call'[c].ret # "TIMED_OUT"
    ]_vars

\* a call returned TIMED_OUT after it pushed a request that is still queued
C3_Witness ==
  \E c \in Calls :
    /\ call[c].ret = "TIMED_OUT"
    /\ call[c].n >= 1
    /\ QueuedOf(c, pending_requests_) # {}

\* C10: a request with pipeline_id >= pipelines.size() makes the call return
\* BAD_VALUE at once: nothing is pushed for it, no wait happens for it,
\* nothing else changes, the call ends, and what the call pushed before
\* stays in the queue.
C10_BadValue ==
  /\ [](\A c \in Calls :
          /\ call[c].pc # "idle" /\ call[c].pipeline_id >= NumPipelines
               => call[c].pc = "done" /\ call[c].ret = "BAD_VALUE"
          /\ call[c].ret = "BAD_VALUE" => call[c].pipeline_id >= NumPipelines)
  /\ [](\A i \in 1..Len(pending_requests_) :
          pending_requests_[i].pipeline_id < NumPipelines)
  /\ [][\A c \in Calls :
          /\ (call'[c].ret = "BAD_VALUE" /\ call[c].ret # "BAD_VALUE")
               => /\ call[c].pc \in {"idle", "loop"}
                  /\ call'[c].n = call[c].n
                  /\ pending_requests_' = pending_requests_
                  /\ <<last_settings_, submitted, sensor_log, notify_log,
                       fault, worker, flush>>'
                       = <<last_settings_, submitted, sensor_log, notify_log,
                           fault, worker, flush>>
          /\ call[c].ret = "BAD_VALUE" => call'[c] = call[c]
       ]_vars

\* a call returned BAD_VALUE after it pushed a request that is still queued
C10_Witness ==
  \E c \in Calls :
    /\ call[c].ret = "BAD_VALUE"
    /\ call[c].n >= 1
    /\ QueuedOf(c, pending_requests_) # {}

(***************************************************************************)
(* Properties of the worker and of Flush.                                  *)
(***************************************************************************)
\* the notifications about the request pushed id-th
NotificationsOf(id) ==
  {k \in 1..Len(notify_log) : notify_log[k].id = id}

\* C4: when the worker reaches a request that left submission without a
\* usable output buffer, it emits exactly one kErrorResult notification with
\* the frame number of the request and goes on to pop it.
C4_ZeroOutputsResultError ==
  (worker.front # 0 /\ pending_requests_[1].outputs = <<>>)
    => /\ fault = "none"
       /\ worker.pc = "pop"
       /\ Cardinality(NotificationsOf(worker.front)) = 1
       /\ \A k \in NotificationsOf(worker.front) :
            /\ notify_log[k].error_code = "kErrorResult"
            /\ notify_log[k].frame_number = pending_requests_[1].frame_number

\* C5: a Flush that found N requests queued emits exactly N kErrorRequest
\* notifications, one per queued request in queue order with its frame
\* number and pipeline id, and returns with the queue empty, whatever the
\* queued requests are.
C5_FlushNotifiesAll ==
  /\ [](~ (fault # "none" /\ flush.pc = "drain"))
  /\ []((flush.pc = "idle" /\ flush.count > 0)
          => /\ Len(notify_log) >= flush.sent + Len(flush.queued)
             /\ \A k \in 1..Len(flush.queued) :
                  notify_log[flush.sent + k] =
                    Notification(flush.queued[k].id,
                                 flush.queued[k].pipeline_id,
                                 flush.queued[k].frame_number,
                                 "kErrorRequest", "flush")
             /\ Cardinality({k \in (flush.sent + 1)..Len(notify_log) :
                               notify_log[k].by = "flush"})
                  = Len(flush.queued))
  /\ [][(flush.pc = "drain" /\ flush'.pc = "idle")
          => pending_requests_' = <<>>]_vars

\* the worker step that resolves the settings of the front request
ResolvesSettings == worker.pc = "lock" /\ worker'.pc = "pop"

\* C6 as stated: a request without settings is resolved from the settings of
\* the latest request of the same pipeline submitted before it that carried
\* settings.
C6_PerPipelineSettings ==
  (/\ worker.pc = "pop"
   /\ pending_requests_[1].settings = NullHandle
   /\ pending_requests_[1].prior # NullHandle)
    => worker.blob = pending_requests_[1].prior

\* C6 as amended: a request without settings is resolved from last_settings_,
\* and last_settings_ is the settings blob of the latest request the worker
\* processed that carried settings, whatever its pipeline: only the worker
\* changes it, only when it processes a request that carries settings, and
\* then to those settings; a submission and a Flush leave it alone.  A
\* dispatched request is handed over with the blob that was resolved.
C6_LastAppliedSettings ==
  [][/\ ResolvesSettings
          => /\ pending_requests_[1].settings = NullHandle
                  => /\ worker'.blob = last_settings_
                     /\ last_settings_' = last_settings_
             /\ pending_requests_[1].settings # NullHandle
                  => /\ worker'.blob = pending_requests_[1].settings
                     /\ last_settings_' = pending_requests_[1].settings
             /\ worker'.out = "dispatch"
                  => sensor_log'[Len(sensor_log')].blob = worker'.blob
     /\ ~ ResolvesSettings => last_settings_' = last_settings_
    ]_vars

\* a request without settings was dispatched with settings that are not the
\* ones last submitted to its pipeline
C6_Witness ==
  /\ worker.pc = "pop"
  /\ worker.out = "dispatch"
  /\ pending_requests_[1].settings = NullHandle
  /\ pending_requests_[1].prior # NullHandle
  /\ worker.blob # pending_requests_[1].prior
  /\ worker.blob = last_settings_

(***************************************************************************)
(* Properties of the buffer resolver and of the fence synchronizer.        *)
(***************************************************************************)
\* the stream CreateSensorBuffer works with for a StreamBuffer
StreamOf(stream_buffer) ==
  LET stream == Streams[stream_buffer.stream_id]
  IN  IF stream.is_input
        THEN [stream EXCEPT !.override_format = OverrideFormat(@)]
        ELSE stream

\* LockSensorBuffer gets as far as locking the memory of the buffer
LockTried(stream_buffer) ==
  \/ StreamOf(stream_buffer).override_format = HAL_PIXEL_FORMAT_YCBCR_420_888
  \/ GetBufferSizeAndStride(StreamOf(stream_buffer)).ret = "OK"

\* the memory lock of the buffer fails: lockYCbCr or lock returns null
LockFails(stream_buffer) ==
  LockTried(stream_buffer) /\ ~ stream_buffer.lock_ok

\* the memory lock of the buffer succeeds
LockSucceeds(stream_buffer) ==
  LockTried(stream_buffer) /\ stream_buffer.lock_ok

\* the buffer has an acquire fence whose import fails
ImportFails(stream_buffer) ==
  stream_buffer.acquire_fence # NullHandle /\ ~ stream_buffer.fence_ok

\* the buffer handles of bin that satisfy Test, in input order
HandlesWhere(Test(_)) == Handles(SelectSeq(bin, Test))

\* the elements of a sequence
Range(seq) == {seq[i] : i \in 1..Len(seq)}

\* the sequence is strictly increasing
Increasing(seq) == \A i, j \in 1..Len(seq) : i < j => seq[i] < seq[j]

Resolvable(stream_buffer) ==
  LockSucceeds(stream_buffer) /\ ~ ImportFails(stream_buffer)

\* C7: a buffer whose memory lock fails, with or without an acquire fence, is
\* left out of the list CreateSensorBuffers returns, the other buffers of the
\* request are resolved all the same, and the call does not fault.
C7_LockFailureDrops ==
  /\ bpc # "fault"
  /\ bpc \in {"created", "acquired"} /\ bin # <<>>
       => /\ \A i \in 1..Len(bin) :
               LockFails(bin[i]) => i \notin Range(Handles(bout.created.v))
          /\ Handles(bout.created.v) = HandlesWhere(Resolvable)

\* C8: a buffer whose fence import fails is left out of the resolved list
\* and does not stop the resolution of the other buffers: the call returns,
\* and every other buffer whose lock and fence import succeed is in the
\* list, in input order.
C8_ImportFailureDrops ==
  (bpc # "in" /\ \E i \in 1..Len(bin) : ImportFails(bin[i]))
    => /\ bpc # "fault"
       /\ \A i \in 1..Len(bin) :
            ImportFails(bin[i]) => i \notin Range(Handles(bout.created.v))
       /\ \A i \in 1..Len(bin) :
            Resolvable(bin[i]) => i \in Range(Handles(bout.created.v))
       /\ Increasing(Handles(bout.created.v))

\* the fence wait of the i-th record given to AcquireBuffers fails
WaitFails(i) ==
  bout.created.v[i].acquire_fence_fd >= 0 /\ bout.sync[i] # "OK"

\* C9 as stated: AcquireBuffers returns every record of its input list,
\* also those whose fence wait timed out or failed.
C9_WaitFailureForwards ==
  (bpc = "acquired" /\ bout.created.v # <<>>)
    => Handles(bout.acquired.v) = Handles(bout.created.v)

\* C9 as amended: AcquireBuffers leaves out the records whose fence wait
\* timed out or failed: of a non-empty input list it returns, in input order,
\* exactly the records without a valid fence descriptor and the records
\* whose wait returned OK, so that nothing is returned of a list all of
\* whose records fail their wait.
C9_WaitFailureDrops ==
  (bpc = "acquired" /\ bout.created.v # <<>>)
    => /\ bout.acquired.kind = "list"
       /\ \A i \in 1..Len(bout.created.v) :
            (bout.created.v[i] \in Range(bout.acquired.v)) <=> ~ WaitFails(i)
       /\ Range(bout.acquired.v) \subseteq Range(bout.created.v)
       /\ Increasing(Handles(bout.acquired.v))
       /\ Len(bout.acquired.v) <= Len(bout.created.v)

\* of two records the one whose fence wait failed was left out and the other
\* one was returned
C9_Witness ==
  /\ bpc = "acquired"
  /\ Len(bout.created.v) = 2
  /\ Len(bout.acquired.v) = 1
  /\ \E i \in 1..2 : WaitFails(i)

(***************************************************************************)
(* Properties of the statuses of ProcessPipelineRequests.                  *)
(***************************************************************************)
\* a request was pushed none of whose buffers was resolved, or the settings
\* of the request the worker has in hand failed to resolve
RequestFailed(request) ==
  \/ request.outputs = <<>>
  \/ worker.ret \notin {"none", "OK"}

\* C11: a call returns OK, BAD_VALUE or TIMED_OUT and nothing else; pushing
\* a request returns no status, whatever became of its buffers, so that the
\* call goes on to its next request and returns OK at the end of the list;
\* and when the worker has a failed request in hand it has sent one
\* notification about it, which is the last one sent, and goes on to pop it.
C11_FailureSurfacedByWorker ==
  /\ [](\A c \in Calls :
          call[c].ret \in {"none", "OK", "BAD_VALUE", "TIMED_OUT"})
  /\ [][\A c \in Calls :
          call'[c].n > call[c].n
            => /\ call'[c].pc = "loop"
               /\ call'[c].ret = "none"
               /\ notify_log' = notify_log]_vars
  /\ []((worker.front # 0 /\ RequestFailed(pending_requests_[1]))
          => /\ fault = "none"
             /\ worker.pc = "pop"
             /\ worker.out = "notify"
             /\ notify_log # <<>>
             /\ notify_log[Len(notify_log)]
                  = Notification(worker.front,
                                 pending_requests_[1].pipeline_id,
                                 pending_requests_[1].frame_number,
                                 "kErrorResult", "worker"))

\* C11 without its last part: the statuses of the call alone
C11_StatusOnly ==
  /\ [](\A c \in Calls :
          call[c].ret \in {"none", "OK", "BAD_VALUE", "TIMED_OUT"})
  /\ [][\A c \in Calls :
          call'[c].n > call[c].n
            => /\ call'[c].pc = "loop"
               /\ call'[c].ret = "none"
               /\ notify_log' = notify_log]_vars

(***************************************************************************)
(* Properties of GetBufferSizeAndStride.                                   *)
(***************************************************************************)
\* a times n modulo 2^32, by doubling and adding
RECURSIVE Times(_, _)
Times(a, n) ==
  IF n = 0
    THEN <<0, 0>>
    ELSE IF n % 2 = 1
           THEN Add32(a, Times(Add32(a, a), n \div 2))
           ELSE Times(Add32(a, a), n \div 2)

\* the number a uint32_t below 2^31 stands for
Value(a) == a[1] * Half + a[2]

\* r is value rounded up to the next multiple of alignment, modulo 2^32
IsAligned(r, value, alignment) ==
  /\ Mod32(r, alignment) = 0
  /\ \E d \in 0..(alignment - 1) : r = Add32(value, U32(d))

\* the bytes per pixel of the formats whose stride is a multiple of the width
BytesPerPixel(format) ==
  CASE format = HAL_PIXEL_FORMAT_RGB_888 -> 3
    [] format = HAL_PIXEL_FORMAT_RGBA_8888 -> 4
    [] format = HAL_PIXEL_FORMAT_RAW16 -> 2
    [] OTHER -> 0

\* C12: GetBufferSizeAndStride follows the format table in 32-bit unsigned
\* arithmetic: RGB_888, RGBA_8888 and RAW16 give stride = width * 3, 4, 2 and
\* size = stride * width; Y16 with the depth data space gives
\* stride = align(align(width, 2) * 2, 16) and size = stride * align(height,
\* 2); BLOB with the JFIF data space gives size = stride = buffer_size; every
\* other stream gives BAD_VALUE.
C12_FormatTable ==
  gout.ret # "none" =>
    LET fmt == gstream.override_format
        ds == gstream.override_data_space
        w == U32(gstream.width)
        h == U32(gstream.height)
    IN  /\ BytesPerPixel(fmt) # 0
             => /\ gout.ret = "OK"
                /\ gout.stride = Times(w, BytesPerPixel(fmt))
                /\ gout.size = Times(gout.stride, gstream.width)
        /\ (fmt = HAL_PIXEL_FORMAT_Y16 /\ ds = HAL_DATASPACE_DEPTH)
             => /\ gout.ret = "OK"
                /\ \E aw \in {w, Add32(w, U32(1))}, ah \in {h, Add32(h, U32(1))} :
                     /\ IsAligned(aw, w, 2)
                     /\ IsAligned(ah, h, 2)
                     /\ IsAligned(gout.stride, Times(aw, 2), 16)
                     /\ gout.size = Times(gout.stride, Value(ah))
        /\ (fmt = HAL_PIXEL_FORMAT_BLOB /\ ds = HAL_DATASPACE_V0_JFIF)
             => /\ gout.ret = "OK"
                /\ gout.size = U32(gstream.buffer_size)
                /\ gout.stride = gout.size
        /\ (\/ fmt = HAL_PIXEL_FORMAT_Y16 /\ ds # HAL_DATASPACE_DEPTH
            \/ fmt = HAL_PIXEL_FORMAT_BLOB /\ ds # HAL_DATASPACE_V0_JFIF
            \/ fmt \notin {HAL_PIXEL_FORMAT_RGB_888, HAL_PIXEL_FORMAT_RGBA_8888,
                           HAL_PIXEL_FORMAT_RAW16, HAL_PIXEL_FORMAT_Y16,
                           HAL_PIXEL_FORMAT_BLOB})
             => gout.ret = "BAD_VALUE"
        /\ (fmt = HAL_PIXEL_FORMAT_RAW16 /\ gstream.width = 640)
             => gout.stride = U32(1280) /\ gout.size = U32(819200)
        /\ (fmt = HAL_PIXEL_FORMAT_RGBA_8888 /\ gstream.width = 100)
             => gout.stride = U32(400) /\ gout.size = U32(40000)
        /\ gout.ret = "BAD_VALUE"
             => gout.stride = U32(0) /\ gout.size = U32(0)

\* a 640-wide RAW16 stream, an RGBA stream whose size wraps around 2^32, a
\* depth stream of odd width and height, or a JFIF stream was measured
C12_Witness ==
  /\ gout.ret = "OK"
  /\ \/ /\ gstream.override_format = HAL_PIXEL_FORMAT_RAW16
        /\ gstream.width = 640 /\ gstream.height = 480
        /\ gout.size = U32(819200)
     \/ /\ gstream.override_format = HAL_PIXEL_FORMAT_RGBA_8888
        /\ gstream.width = 65536
        /\ gout.size = U32(0)
     \/ /\ gstream.override_format = HAL_PIXEL_FORMAT_Y16
        /\ gstream.width = 3 /\ gstream.height = 3
        /\ gout.stride = U32(16) /\ gout.size = U32(64)
     \/ /\ gstream.override_format = HAL_PIXEL_FORMAT_BLOB
        /\ gstream.buffer_size = 65536
        /\ gout.stride = U32(65536)

(***************************************************************************)
(* Properties of one worker iteration.                                     *)
(***************************************************************************)
\* the worker step of lines 323-364 on a non-empty queue
WorkerIteration ==
  worker.pc = "lock" /\ worker'.pc # "lock" /\ pending_requests_ # <<>>

\* the worker step of lines 366-369
WorkerPops == worker.pc = "pop" /\ worker'.pc # "pop"

\* the callers a notify_one wakes in this step
Signalled == {c \in Calls : call[c].pc = "wait" /\ call'[c].pc = "woken"}

\* the outcome of a worker iteration for the head request
OneOutcome(head) ==
  /\ fault' = "none"
  /\ worker'.pc = "pop"
  /\ worker'.front = head.id
  /\ IF worker'.ret = "OK" /\ worker'.acquired # <<>>
       THEN /\ sensor_log' =
                 Append(sensor_log,
                        SensorCall("SetCurrentRequest", head.id, worker'.blob,
                                   worker'.acquired))
            /\ notify_log' = notify_log
       ELSE /\ notify_log' =
                 Append(notify_log,
                        [id |-> head.id, pipeline_id |-> head.pipeline_id,
                         frame_number |-> head.frame_number,
                         error_stream_id |-> -1,
                         error_code |-> "kErrorResult", by |-> "worker"])
            /\ sensor_log' = sensor_log
  /\ pending_requests_'[1].output_buffers.v = <<>>
  /\ Len(pending_requests_') = Len(pending_requests_)

\* the pop that ends a worker iteration
OnePop ==
  /\ pending_requests_ # <<>>
  /\ pending_requests_[1].id = worker.front
  /\ pending_requests_' = Tail(pending_requests_)
  /\ sensor_log' = sensor_log
  /\ notify_log' = notify_log
  /\ Cardinality(Signalled) =
       IF \E c \in Calls : call[c].pc = "wait" THEN 1 ELSE 0
  /\ \A c \in Calls : c \notin Signalled => call'[c] = call[c]

\* C13: every worker iteration that finds the queue non-empty produces one
\* outcome for the head request: a SetCurrentRequest call when the settings
\* resolved and an output buffer was acquired, and otherwise one kErrorResult
\* notification with the frame number of the head and error_stream_id -1;
\* the output buffers are acquired either way; then the head is popped and
\* request_condition_ signalled once.
C13_OneOutcomePerIteration ==
  /\ [][WorkerIteration => OneOutcome(pending_requests_[1])]_vars
  /\ [][WorkerPops => OnePop]_vars

\* C13 for the head requests that have a first output buffer
C13_WithFirstOutput ==
  /\ [][(WorkerIteration /\ pending_requests_[1].outputs # <<>>)
          => OneOutcome(pending_requests_[1])]_vars
  /\ [][WorkerPops => OnePop]_vars

\* C14: the worker holds process_mutex_ from its peek to its pop and only
\* then: between them nothing but its own pop changes the queue, nothing is
\* pushed, no Flush starts or drains, and the entry popped is the entry
\* peeked; around the vsync wait the worker does not hold the mutex.
C14_IterationAtomic ==
  /\ [](worker.pc = "pop"
          => /\ process_mutex_ = WorkerThread
             /\ pending_requests_ # <<>>
             /\ pending_requests_[1].id = worker.front)
  /\ [](worker.pc \in {"top", "lock", "exit"}
          => process_mutex_ # WorkerThread)
  /\ [][worker.pc = "pop"
          => /\ submitted' = submitted
             /\ flush' = flush
             /\ pending_requests_' # pending_requests_
                  => /\ worker'.pc = "top"
                     /\ pending_requests_' = Tail(pending_requests_)]_vars

\* the worker is between its peek and its pop with room in the queue while a
\* caller that has requests to submit and a Flush are kept out by the mutex
C14_Witness ==
  /\ worker.pc = "pop"
  /\ Len(pending_requests_) <= kPipelineDepth
  /\ Taken < MaxPush
  /\ \E c \in Calls : call[c].pc \in {"idle", "woken"}
  /\ flush.pc = "idle" /\ flush.count < MaxFlush
  /\ dtor = "idle"

(***************************************************************************)
(* Properties of the order of the steps of Flush.                          *)
(***************************************************************************)
\* the number of Flush calls made to sensor_
SensorFlushes ==
  Len(SelectSeq(sensor_log, LAMBDA e : e.op = "Flush"))

\* a caller enters Flush
FlushEnters == flush.pc = "idle" /\ flush'.pc = "drain"

\* Flush returns
FlushReturns == flush.pc = "drain" /\ flush'.pc = "idle"

\* the order of the steps of one Flush call, whatever sensor_->Flush()
\* returned
FlushOrder ==
  /\ [](SensorFlushes = flush.count + IF flush.pc = "drain" THEN 1 ELSE 0)
  /\ [][FlushEnters
          => /\ sensor_log' = Append(sensor_log, SensorCall("Flush", 0, 0, <<>>))
             /\ flush'.ret \in SensorFlushResults
             /\ pending_requests_' = pending_requests_
             /\ notify_log' = notify_log]_vars
  /\ [][flush.pc = "drain"
          => /\ sensor_log' = sensor_log
             /\ flush'.ret = flush.ret
             /\ flush'.queued = flush.queued]_vars
  /\ [][FlushReturns
          => /\ pending_requests_ = <<>>
             /\ pending_requests_' = <<>>
             /\ Len(notify_log) = flush.sent + Len(flush.queued)
             /\ \A k \in 1..Len(flush.queued) :
                  /\ notify_log[flush.sent + k].id = flush.queued[k].id
                  /\ notify_log[flush.sent + k].by = "flush"]_vars

\* C15: Flush calls sensor_->Flush() once, before it removes anything from
\* the queue, and returns the status that call returned; whether that status
\* is OK or an error, the Flush goes on to notify and remove every queued
\* request and returns.
C15_SensorFlushFirst ==
  /\ FlushOrder
  /\ [](flush.pc = "drain" => fault = "none")

\* C15 for queues whose requests all have a first output buffer: a Flush
\* stops short only at a request without one
C15_WithFirstOutput ==
  /\ FlushOrder
  /\ []((flush.pc = "drain" /\ fault # "none")
          => /\ pending_requests_ # <<>>
             /\ pending_requests_[1].outputs = <<>>)

(***************************************************************************)
(* Properties of teardown.                                                 *)
(***************************************************************************)
\* sensor_->ShutDown() was called
ShutDownCalled == \E i \in 1..Len(sensor_log) : sensor_log[i].op = "ShutDown"

\* the order of teardown: once processor_done_ is set the worker takes no
\* new iteration after the one it is in; ShutDown is called with the worker
\* terminated, and nothing is dispatched or notified after it
TeardownOrder ==
  /\ [](ShutDownCalled => (processor_done_ /\ worker.pc = "exit"))
  /\ [](worker.pc = "exit" => processor_done_)
  /\ [][(processor_done_ /\ worker.pc = "top" /\ worker' # worker)
          => worker'.pc = "exit"]_vars
  /\ [][worker.pc = "exit" => worker' = worker]_vars
  /\ [][ShutDownCalled
          => sensor_log' = sensor_log /\ notify_log' = notify_log]_vars

\* C16: once processor_done_ is set the worker finishes at most the iteration
\* it is in and terminates, and teardown completes; sensor_->ShutDown() is
\* called only after the worker has terminated, so that no SetCurrentRequest
\* and no notification of the worker follows it.
C16_TeardownCompletes ==
  /\ TeardownOrder
  /\ processor_done_ ~> (dtor = "done")

\* C16 for the runs in which the request thread does not die in the
\* iteration it is finishing
C16_UnlessFault ==
  /\ TeardownOrder
  /\ processor_done_ ~> (dtor = "done" \/ fault # "none")

(***************************************************************************)
(* Properties of the blocked submitters.                                   *)
(***************************************************************************)
\* call c returns TIMED_OUT in this step
ReturnsTimedOut(c) == call'[c].ret = "TIMED_OUT" /\ call[c].ret # "TIMED_OUT"

\* the queue drops from above the depth bound to within it in this step
QueueDrops ==
  /\ Len(pending_requests_) > kPipelineDepth
  /\ Len(pending_requests_') <= kPipelineDepth

\* C17: a blocked submitter returns TIMED_OUT only with the queue above
\* kPipelineDepth, and a step that brings the queue down to kPipelineDepth or
\* below, a worker pop or a Flush drain, wakes the submitters blocked on it.
C17_WokenWhenQueueDrops ==
  /\ [][\A c \in Calls :
          ReturnsTimedOut(c) => Len(pending_requests_) > kPipelineDepth]_vars
  /\ [][QueueDrops
          => \A c \in Calls : call[c].pc = "wait" => call'[c].pc = "woken"]_vars

(***************************************************************************)
(* Properties of the progress of the queued requests.                      *)
(***************************************************************************)
\* the request pushed id-th is in the queue
InQueue(id) ==
  \E i \in 1..Len(pending_requests_) : pending_requests_[i].id = id

\* the request pushed id-th was handed to SetCurrentRequest
WasDispatched(id) ==
  \E i \in 1..Len(sensor_log) :
    sensor_log[i].op = "SetCurrentRequest" /\ sensor_log[i].id = id

\* the push numbers of a run
Pushes == 1..MaxPush

\* C18: while teardown has not been requested every queued request is
\* eventually removed from the queue, and the request thread stops for no
\* other reason than processor_done_: it does not die in the body of an
\* iteration, and it always comes back to the top of its loop.
C18_WorkerNeverStalls ==
  /\ \A id \in Pushes : InQueue(id) ~> (~ InQueue(id) \/ processor_done_)
  /\ [](worker.pc = "exit" => processor_done_)
  /\ [](worker.pc # "body")
  /\ (worker.pc # "top") ~> (worker.pc \in {"top", "exit"})

\* C18 for the runs in which no thread dies
C18_UnlessFault ==
  /\ \A id \in Pushes :
       InQueue(id) ~> (~ InQueue(id) \/ processor_done_ \/ fault # "none")
  /\ [](worker.pc = "exit" => processor_done_)
  /\ [](worker.pc = "body" => fault # "none")
  /\ (worker.pc # "top") ~> (worker.pc \in {"top", "exit"} \/ fault # "none")

\* the requests that were queued when the latest Flush took the mutex
Flushed == {flush.queued[k].id : k \in 1..Len(flush.queued)}

\* C19: a request that was queued when a Flush took the mutex gets at most
\* one notification, none of them a kErrorResult of the worker; and once that
\* Flush has returned the request is out of the queue and no SetCurrentRequest
\* was or will be made for it.
C19_FlushBarrier ==
  /\ [](\A id \in Flushed :
          /\ Cardinality(NotificationsOf(id)) <= 1
          /\ \A k \in NotificationsOf(id) :
               /\ notify_log[k].by = "flush"
               /\ notify_log[k].error_code = "kErrorRequest"
          /\ ~ WasDispatched(id))
  /\ []((flush.pc = "idle" /\ flush.count > 0)
          => \A id \in Flushed :
               /\ ~ InQueue(id)
               /\ Cardinality(NotificationsOf(id)) = 1
               /\ worker.front # id)
  /\ [][(flush.pc = "idle" /\ flush.count > 0 /\ flush'.pc = "idle")
          => \A k \in 1..Len(notify_log') :
               (k > Len(notify_log) => notify_log'[k].id \notin Flushed)]_vars

\* a Flush found two requests queued, notified both and returned, and the
\* worker then dispatched a request pushed after it
C19_Witness ==
  /\ flush.pc = "idle" /\ flush.count > 0
  /\ Len(flush.queued) = 2
  /\ sensor_log # <<>>
  /\ sensor_log[Len(sensor_log)].op = "SetCurrentRequest"
  /\ \A id \in Flushed : sensor_log[Len(sensor_log)].id > id

\* the request pushed id-th got an outcome
Handled(id) == WasDispatched(id) \/ NotificationsOf(id) # {}

\* C20: every request that was pushed is eventually handed to
\* SetCurrentRequest or reported by one error notification, also when
\* teardown finds it queued; no request gets both, or two notifications.
\* The runs in which a thread dies before the request is reached are left
\* aside.
C20_NoSilentDrop ==
  /\ \A id \in Pushes : InQueue(id) ~> (Handled(id) \/ fault # "none")
  /\ [](\A id \in Pushes :
          /\ Cardinality(NotificationsOf(id)) <= 1
          /\ ~ (WasDispatched(id) /\ NotificationsOf(id) # {}))

\* C20 for the runs in which no thread dies and teardown is not requested
C20_UnlessFaultOrTeardown ==
  /\ \A id \in Pushes :
       InQueue(id) ~> (Handled(id) \/ fault # "none" \/ processor_done_)
  /\ [](\A id \in Pushes :
          /\ Cardinality(NotificationsOf(id)) <= 1
          /\ ~ (WasDispatched(id) /\ NotificationsOf(id) # {}))

====
